---- MODULE Spec2Model ----
(***************************************************************************)
(* FormatVAE (src/FormatSSVAE/vae.py): the generative model, the inference *)
(* guide and the checkpoint operations of a character-level VAE.           *)
(*                                                                         *)
(* Conventions.  Python sequences are 0-based, TLA+ sequences 1-based:     *)
(* timestep i of the code is position i+1 here, feature k is position k+1. *)
(* A character is a one-character string, a Python string a sequence of    *)
(* characters.  An optional value is None == <<>> or Some(v) == <<v>>.     *)
(* A tensor of reals whose entries the code never inspects (the latent     *)
(* draw, a network's output) is a tensor of distinct symbolic entries.     *)
(***************************************************************************)
EXTENDS Integers, Sequences, FiniteSets, TLC

VARIABLES
    decoder_hidden_size,   \* self.decoder_hidden_size
    latent_dim,            \* self.latent_dim
    params,                \* the four parameter sets of the object
    fsDirs,                \* folders that exist on disk
    fsFiles,               \* files on disk: <<folder, filename>> -> content
    PAD_CHAR,              \* the symbol the codec pads with
    pc,                    \* where the driver is: idle, inside a call, after it
    x,                     \* the argument of the running model/guide call
    batch_size,
    x_tensor,
    outputs,
    z,
    decoder_hidden_state,
    decoder_input,
    i,                     \* loop index of model
    sites,                 \* names of the sample sites declared by the call
    steps,                 \* one record per decoder step of the call
    loc,                   \* guide: posterior mean
    scale,                 \* guide: posterior scale
    ret,                   \* what the finished call returned
    err,                   \* the exception the finished call raised
    arg,                   \* <<folder, filename>> of the checkpoint call
    before,                \* the parameters when load_checkpoint was entered
    saved,                 \* <<folder, filename>> -> params at the last save
    nsaves                 \* save_checkpoint calls so far

vars == <<decoder_hidden_size, latent_dim, params, fsDirs, fsFiles, PAD_CHAR,
          pc, x, batch_size, x_tensor, outputs, z, decoder_hidden_state,
          decoder_input, i, sites, steps, loc, scale, ret, err, arg, before,
          saved, nsaves>>

objVars  == <<decoder_hidden_size, latent_dim, PAD_CHAR>>
ckptVars == <<params, fsDirs, fsFiles, arg, before, saved, nsaves>>
callVars == <<x, batch_size, x_tensor, outputs, z, decoder_hidden_state,
              decoder_input, i, sites, steps, loc, scale>>

-----------------------------------------------------------------------------
(* Bounds of the model *)

MaxStringLenBound == 3   \* value given to MAX_STRING_LEN
MaxBatch  == 2           \* largest batch passed to model or guide
MaxChars  == 3           \* most characters in one batch, all strings together
MaxHidden == 2           \* largest decoder hidden width
MaxSaves  == 2           \* most save_checkpoint calls in one run

-----------------------------------------------------------------------------
(* Optional values *)

None == <<>>
Some(v) == <<v>>

-----------------------------------------------------------------------------
(* FormatSSVAE.const *)

EOS_CHAR == "$"
ALL_LETTERS == <<"a", "b", EOS_CHAR>>
MAX_STRING_LEN == MaxStringLenBound

Alphabet == {ALL_LETTERS[k] : k \in 1..Len(ALL_LETTERS)}

-----------------------------------------------------------------------------
(* Tensors: a rank-2 tensor is a sequence of rows, a rank-3 one a sequence  *)
(* of rank-2 tensors.                                                      *)

Shape2(t) == <<Len(t), IF Len(t) = 0 THEN 0 ELSE Len(t[1])>>

\* torch.zeros(rows, cols) / torch.ones(rows, cols)
Full(rows, cols, v) == [b \in 1..rows |-> [k \in 1..cols |-> v]]

\* t[:, lo:hi] of a rank-2 tensor (lo, hi 0-based as in the code)
Columns(t, lo, hi) == [b \in 1..Len(t) |-> SubSeq(t[b], lo + 1, hi)]

\* t.unsqueeze(0) and t.squeeze(0)
Unsqueeze0(t) == <<t>>
Squeeze0(t) == IF Len(t) = 1 THEN t[1] ELSE t

\* v.nonzero() of a rank-1 tensor: the positions of its non-zero entries
NonZero(v) == {k \in 1..Len(v) : v[k] # 0}

-----------------------------------------------------------------------------
(* FormatSSVAE.util.convert: the character codec *)

OneHot(c) == [k \in 1..Len(ALL_LETTERS) |-> IF ALL_LETTERS[k] = c THEN 1 ELSE 0]

\* chars_to_tensor(chars, letter_set): shape <1, len(chars), len(letter_set)>
chars_to_tensor(chars) == Unsqueeze0([b \in 1..Len(chars) |-> OneHot(chars[b])])

\* a string cut or padded to exactly n symbols.  The padding is a symbol of
\* the alphabet, whichever the codec uses: line 51 reads the position of the
\* one non-zero entry of every observed vector, so every timestep the codec
\* lays out, padding included, is one-hot.
pad_string(s, n, pad) == [t \in 1..n |-> IF t <= Len(s) THEN s[t] ELSE pad]

\* strings_to_tensor(strings, letter_set, tensor_len):
\* shape <tensor_len, len(strings), len(letter_set)>
strings_to_tensor(strings, tensor_len, pad) ==
    [t \in 1..tensor_len |->
        [b \in 1..Len(strings) |-> OneHot(pad_string(strings[b], tensor_len, pad)[t])]]

-----------------------------------------------------------------------------
(* Python str operations used by model *)

Min(S) == CHOOSE m \in S : \A n \in S : m <= n

\* string.find(c): the 0-based index of the first c, or -1
Find(string, c) ==
    LET at == {k \in 1..Len(string) : string[k] = c}
    IN  IF at = {} THEN -1 ELSE Min(at) - 1

\* string[:n]
Prefix(string, n) == SubSeq(string, 1, n)

\* string.rfind(c): the 0-based index of the last c, or -1
RFind(string, c) ==
    LET at == {k \in 1..Len(string) : string[k] = c}
    IN  IF at = {} THEN -1 ELSE (CHOOSE m \in at : \A n \in at : m >= n) - 1

CutAtLastEOS(string) ==
    IF RFind(string, EOS_CHAR) # -1
    THEN Prefix(string, RFind(string, EOS_CHAR))
    ELSE string

\* the lambda of line 54
CutAtEOS(string) ==
    IF Find(string, EOS_CHAR) # -1
    THEN Prefix(string, Find(string, EOS_CHAR))
    ELSE string

\* ALL_LETTERS[v.nonzero()] of line 51, v a one-hot vector
LetterOf(v) == ALL_LETTERS[CHOOSE k \in NonZero(v) : TRUE]

-----------------------------------------------------------------------------
(* pyro and the networks *)

SiteXUnindexed(n) == "x"

\* the name f"x_{i}" of line 49
SiteX(n) == "x_" \o ToString(n)

\* a draw from Normal(loc, scale).to_event(1): one entry per entry of loc,
\* each an unknown real, named by its position
SampleNormal(locT, scaleT) ==
    [b \in 1..Len(locT) |-> [k \in 1..Len(locT[b]) |-> <<b, k>>]]

\* the values a draw from OneHotCategorical(probs) can take
OneHotSupport == {OneHot(c) : c \in Alphabet}

\* Decoder.forward(input, state): the new state is a function of the seed
\* state and of every input fed so far
DecoderForward(input, state) == [state EXCEPT !.fed = Append(@, input)]

\* Encoder.init_hidden(batch_size) and Encoder.forward(input, state)
EncoderInit(n) == [batch |-> n, fed |-> <<>>]
EncoderForward(input, state) == [state EXCEPT !.fed = Append(@, input)]

\* NeuralNet.forward(input) of the network `net` with `out` output features
\* the output names the network that computed it and the input it was given
NetForward(net, out, input) ==
    [net |-> net, input |-> input,
     val |-> [b \in 1..input.batch |-> [k \in 1..out |-> <<net, b, k>>]]]

-----------------------------------------------------------------------------
(* FormatVAE *)

\* line 17
LatentDimHalf(h) == h * 1 * 1
LatentDim(h) == h * 1 * 2

\* lines 22-23: output_size of loc_mlp and of scale_mlp
MlpOutputSizeHalf == decoder_hidden_size
MlpOutputSize == latent_dim

_preprocess_input_noEOS(xs, pad) ==
    [batch_size |-> Len(xs),
     x_tensor   |-> strings_to_tensor(xs, MAX_STRING_LEN, pad)]

\* _preprocess_input, lines 107-113
_preprocess_input(xs, pad) ==
    [batch_size |-> Len(xs),
     x_tensor   |-> strings_to_tensor([b \in 1..Len(xs) |-> xs[b] \o <<EOS_CHAR>>],
                                      MAX_STRING_LEN, pad)]

\* line 35: the call without an observation
NoObservationWide ==
    [batch_size |-> MAX_STRING_LEN, x_tensor |-> [t \in 1..MAX_STRING_LEN |-> None]]
NoObservation ==
    [batch_size |-> 1, x_tensor |-> [t \in 1..MAX_STRING_LEN |-> None]]

\* line 36
InitialOutputs(n) == [j \in 1..n |-> <<>>]

\* line 49: the value of site x_i becomes the next decoder input
NextInputEOS(value) == chars_to_tensor([j \in 1..Len(value) |-> EOS_CHAR])
NextInput(value) == Unsqueeze0(value)

\* line 43: the split of z into the decoder's hidden and cell state
SplitLatent(zT, h) ==
    [h |-> Unsqueeze0(Columns(zT, 0, h)),
     c |-> Unsqueeze0(Columns(zT, h, Len(zT[1]))),
     fed |-> <<>>]

-----------------------------------------------------------------------------
(* Inputs *)

RECURSIVE SumSeq(_)
SumSeq(s) == IF s = <<>> THEN 0 ELSE s[1] + SumSeq(Tail(s))

\* the strings of lengths lens[1], lens[2], ... cut out of the flat sequence
RECURSIVE SplitBy(_, _)
SplitBy(flat, lens) ==
    IF lens = <<>> THEN <<>>
    ELSE <<SubSeq(flat, 1, lens[1])>>
         \o SplitBy(SubSeq(flat, lens[1] + 1, Len(flat)), Tail(lens))

\* input strings run up to one symbol past the longest that fits with its
\* end-of-sequence symbol
MaxInputLen == MAX_STRING_LEN

Batches ==
    UNION { UNION { {SplitBy(flat, lens) : flat \in [1..SumSeq(lens) -> Alphabet]}
                    : lens \in {l \in [1..n -> 0..MaxInputLen] : SumSeq(l) <= MaxChars} }
            : n \in 1..MaxBatch }

Folders == {"nn_model", "run2"}
Filenames == {"checkpoint.pth.tar", "best.pth.tar"}
Paths == Folders \X Filenames
ParamVals == {"w0", "w1"}
ParamSets == {"encoder_lstm", "decoder_lstm", "loc_mlp", "scale_mlp"}

-----------------------------------------------------------------------------
(* Actions *)

NoCall ==
    /\ x = None /\ batch_size = 0 /\ x_tensor = <<>> /\ outputs = <<>>
    /\ z = <<>> /\ decoder_hidden_state = None /\ decoder_input = <<>>
    /\ i = 0 /\ sites = <<>> /\ steps = <<>> /\ loc = None /\ scale = None
    /\ ret = None

\* __init__, lines 12-23
Construct(h) ==
    /\ decoder_hidden_size = h
    /\ latent_dim = LatentDim(h)
    /\ params = [n \in ParamSets |-> "w0"]

NoFiles == [p \in Paths |-> None]

Init ==
    /\ \E h \in 1..MaxHidden : Construct(h)
    /\ PAD_CHAR \in Alphabet
    /\ fsDirs = {} /\ fsFiles = NoFiles /\ saved = NoFiles /\ nsaves = 0
    /\ arg = None /\ before = None /\ err = None
    /\ pc = "idle"
    /\ NoCall

\* model and guide leave the object as it is: every call starts from the
\* state after construction, and one call per behaviour covers them all
CanCall == pc = "idle"

\* model, lines 32-44: up to the decoding loop
model_begin(xo) ==
    /\ CanCall
    /\ LET pre == IF xo # None THEN _preprocess_input(xo[1], PAD_CHAR)
                  ELSE NoObservation
           bs  == pre.batch_size
           xt  == IF xo # None THEN [t \in 1..MAX_STRING_LEN |-> Some(pre.x_tensor[t])]
                  ELSE pre.x_tensor
           zT  == SampleNormal(Full(bs, latent_dim, 0), Full(bs, latent_dim, 1))
       IN  /\ x' = xo
           /\ batch_size' = bs
           /\ x_tensor' = xt
           /\ outputs' = InitialOutputs(bs)
           /\ z' = zT
           /\ decoder_hidden_state' = Some(SplitLatent(zT, decoder_hidden_size))
           /\ decoder_input' = chars_to_tensor([j \in 1..bs |-> EOS_CHAR])
    /\ sites' = <<"z">>
    /\ i' = 0 /\ steps' = <<>> /\ loc' = None /\ scale' = None
    /\ ret' = None /\ err' = None
    /\ pc' = "model_loop"
    /\ UNCHANGED <<objVars, ckptVars>>

\* pyro.sample(name, OneHotCategorical(probs), obs): the observation when there
\* is one, else a draw for every batch element
SampleSite(obs, n) ==
    IF obs # None THEN {obs[1]} ELSE [1..n -> OneHotSupport]

\* model, lines 47-51: one iteration of the decoding loop
model_step ==
    /\ pc = "model_loop"
    /\ i < MAX_STRING_LEN
    /\ LET state_in  == decoder_hidden_state[1]
           state_out == DecoderForward(decoder_input, state_in)
       IN  \E value \in SampleSite(x_tensor[i + 1], batch_size) :
             /\ decoder_hidden_state' = Some(state_out)
             /\ decoder_input' = NextInput(value)
             /\ sites' = Append(sites, SiteX(i))
             /\ outputs' = [j \in 1..Len(outputs) |->
                              Append(outputs[j], LetterOf(Squeeze0(decoder_input')[j]))]
             /\ steps' = Append(steps, [input |-> decoder_input, state_in |-> state_in,
                                        state_out |-> state_out, value |-> value,
                                        observed |-> x_tensor[i + 1] # None])
    /\ i' = i + 1
    /\ UNCHANGED <<objVars, ckptVars, x, batch_size, x_tensor, z, loc, scale, ret, err, pc>>

\* model, lines 53-55: the truncation and the return
model_return ==
    /\ pc = "model_loop"
    /\ i = MAX_STRING_LEN
    /\ outputs' = [j \in 1..Len(outputs) |-> CutAtEOS(outputs[j])]
    /\ ret' = Some(outputs')
    /\ pc' = "model_done"
    /\ UNCHANGED <<objVars, ckptVars, x, batch_size, x_tensor, z, decoder_hidden_state,
                   decoder_input, i, sites, steps, loc, scale, err>>

\* guide, lines 71-72: the encoder run over the first n timesteps
RECURSIVE EncoderRollout(_, _, _)
EncoderRollout(xt, state, n) ==
    IF n = 0 THEN state
    ELSE EncoderForward(Unsqueeze0(xt[n]), EncoderRollout(xt, state, n - 1))

\* guide, lines 77 and 78
GuideLoc(flattened_lstm_output) == NetForward("loc_mlp", MlpOutputSize, flattened_lstm_output)
GuideScale(flattened_lstm_output) == NetForward("loc_mlp", MlpOutputSize, flattened_lstm_output)

\* guide, lines 64-80; the function ends without a return statement
guide(xs) ==
    /\ CanCall
    /\ LET pre == _preprocess_input(xs, PAD_CHAR)
           encoder_hidden_state ==
               EncoderRollout(pre.x_tensor, EncoderInit(pre.batch_size), MAX_STRING_LEN)
           flattened_lstm_output ==
               [batch |-> pre.batch_size,
                hidden |-> [part |-> 0, of |-> encoder_hidden_state],
                cell   |-> [part |-> 1, of |-> encoder_hidden_state]]
           locN   == GuideLoc(flattened_lstm_output)
           scaleN == GuideScale(flattened_lstm_output)
       IN  /\ x' = Some(xs)
           /\ batch_size' = pre.batch_size
           /\ x_tensor' = [t \in 1..MAX_STRING_LEN |-> Some(pre.x_tensor[t])]
           /\ loc' = Some(locN)
           /\ scale' = Some(scaleN)
           /\ z' = SampleNormal(locN.val, scaleN.val)
    /\ sites' = <<"z">>
    /\ ret' = None /\ err' = None
    /\ pc' = "guide_done"
    /\ UNCHANGED <<objVars, ckptVars, outputs, decoder_hidden_state, decoder_input, i, steps>>

Next ==
    \/ \E xo \in {None} \cup {Some(b) : b \in Batches} : model_begin(xo)
    \/ model_step
    \/ model_return
    \/ \E xs \in Batches : guide(xs)

Spec == Init /\ [][Next]_vars

-----------------------------------------------------------------------------
(* Checkpoints *)

\* state_dict() of the four components, keyed as in lines 98-103
SaveContent(p) ==
    [encoder_lstm |-> p["encoder_lstm"], decoder_lstm |-> p["decoder_lstm"],
     loc_mlp |-> p["loc_mlp"], scale_mlp |-> p["scale_mlp"]]

LoadContentLocTwice(c) ==
    [n \in ParamSets |->
        CASE n = "encoder_lstm" -> c.encoder_lstm
          [] n = "decoder_lstm" -> c.decoder_lstm
          [] n = "loc_mlp"      -> c.loc_mlp
          [] n = "scale_mlp"    -> c.loc_mlp]

\* the four load_state_dict calls of lines 88-91
LoadContent(c) ==
    [n \in ParamSets |->
        CASE n = "encoder_lstm" -> c.encoder_lstm
          [] n = "decoder_lstm" -> c.decoder_lstm
          [] n = "loc_mlp"      -> c.loc_mlp
          [] n = "scale_mlp"    -> c.scale_mlp]

\* os.path.exists
FileExists(folder, filename) == fsFiles[<<folder, filename>>] # None
FolderExists(folder) == folder \in fsDirs

NoModelErrorFilePath(folder, filename) ==
    [text |-> "No model in path", names |-> <<folder, filename>>]

\* the exception of line 86: f"No model in path {folder}"
NoModelError(folder, filename) == [text |-> "No model in path", names |-> <<folder>>]

\* load_checkpoint, lines 83-91
load_checkpoint(folder, filename) ==
    /\ arg' = Some(<<folder, filename>>)
    /\ before' = Some(params)
    /\ IF ~FileExists(folder, filename)
       THEN /\ err' = Some(NoModelError(folder, filename))
            /\ pc' = "load_raised"
            /\ UNCHANGED params
       ELSE /\ params' = LoadContent(fsFiles[<<folder, filename>>][1])
            /\ err' = None
            /\ pc' = "load_done"
    /\ UNCHANGED <<objVars, callVars, ret, fsDirs, fsFiles, saved, nsaves>>

\* save_checkpoint, lines 94-104
save_checkpoint(folder, filename) ==
    /\ nsaves < MaxSaves
    /\ nsaves' = nsaves + 1
    /\ arg' = Some(<<folder, filename>>)
    /\ fsDirs' = IF ~FolderExists(folder) THEN fsDirs \cup {folder} ELSE fsDirs
    /\ fsFiles' = [fsFiles EXCEPT ![<<folder, filename>>] = Some(SaveContent(params))]
    /\ saved' = [saved EXCEPT ![<<folder, filename>>] = Some(params)]
    /\ before' = None /\ err' = None
    /\ pc' = "save_done"
    /\ UNCHANGED <<objVars, callVars, ret, params>>

\* an optimizer step on the parameters registered by pyro.module
\* (lines 32, 64-66): one parameter set takes a new value
Train(n, v) ==
    /\ v # params[n]
    /\ params' = [params EXCEPT ![n] = v]
    /\ arg' = None /\ before' = None /\ err' = None
    /\ pc' = "idle"
    /\ UNCHANGED <<objVars, callVars, ret, fsDirs, fsFiles, saved, nsaves>>

InitCkpt ==
    /\ Construct(MaxHidden)
    /\ PAD_CHAR = EOS_CHAR
    /\ fsDirs \in SUBSET Folders /\ fsFiles = NoFiles /\ saved = NoFiles /\ nsaves = 0
    /\ arg = None /\ before = None /\ err = None
    /\ pc = "idle"
    /\ NoCall

NextCkpt ==
    \/ \E n \in ParamSets, v \in ParamVals : Train(n, v)
    \/ \E folder \in Folders, filename \in Filenames : save_checkpoint(folder, filename)
    \/ \E folder \in Folders, filename \in Filenames : load_checkpoint(folder, filename)

SpecCkpt == InitCkpt /\ [][NextCkpt]_vars

-----------------------------------------------------------------------------
(* Properties of model and guide, checked under Spec *)

InModel == pc \in {"model_loop", "model_done"}

\* len(x), or 1 without an observation
ExpectedCount == IF x = None THEN 1 ELSE Len(x[1])

\* the string batch element j accumulated: the letters of the values of
\* x_0, x_1, ... as the decoder steps recorded them
Accumulated(j) == [t \in 1..Len(steps) |-> LetterOf(steps[t].value[j])]

\* r is string cut just before its first end-of-sequence symbol, or all of it
IsCutBeforeFirstEOS(r, string) ==
    \E n \in 0..Len(string) :
        /\ r = [k \in 1..n |-> string[k]]
        /\ \A k \in 1..n : string[k] # EOS_CHAR
        /\ n = Len(string) \/ string[n + 1] = EOS_CHAR

\* C1: model returns len(x) strings for a batch x and 1 string for x = None,
\* and the number of output strings is that number at every decoding step
\* and after the truncation.
C1_OutputCount ==
    /\ InModel => Len(outputs) = ExpectedCount
    /\ pc = "model_done" => ret # None /\ Len(ret[1]) = ExpectedCount

C1_Witness ==
    /\ pc = "model_done" /\ x # None /\ Len(x[1]) = 2 /\ Len(ret[1]) = 2
    /\ Len(steps) = MAX_STRING_LEN

\* C2: every string model returns is the accumulated string cut just before
\* its first end-of-sequence symbol, or the whole accumulated string when it
\* holds none; no returned string contains the end-of-sequence symbol.
C2_Truncation ==
    pc = "model_done" =>
        \A j \in 1..Len(ret[1]) :
            /\ Len(steps) = MAX_STRING_LEN
            /\ IsCutBeforeFirstEOS(ret[1][j], Accumulated(j))
            /\ \A k \in 1..Len(ret[1][j]) : ret[1][j][k] # EOS_CHAR

C2_Witness ==
    /\ pc = "model_done" /\ x = None
    /\ Accumulated(1) = <<"a", EOS_CHAR, EOS_CHAR>>
    /\ ret[1] = << <<"a">> >>

C4_ScaleFromScaleMlp ==
    pc = "guide_done" =>
        /\ loc[1].net = "loc_mlp"
        /\ scale[1].net = "scale_mlp"
        /\ loc[1].input = scale[1].input

\* the site names of one model call, written out
ModelSiteNames == <<"z", "x_0", "x_1", "x_2", "x_3", "x_4", "x_5", "x_6", "x_7">>

\* C5: one call of model declares exactly the sites z, x_0, ..., x_{MAX_STRING_LEN-1}
\* in this order, each once, with or without an observation; one call of
\* guide declares the site z only, under the name the model uses.
C5_SampleSites ==
    /\ pc = "model_loop" => sites = SubSeq(ModelSiteNames, 1, i + 1)
    /\ pc = "model_done" => sites = SubSeq(ModelSiteNames, 1, MAX_STRING_LEN + 1)
    /\ pc = "guide_done" => sites = <<ModelSiteNames[1]>>
    /\ \A a, b \in 1..Len(sites) : a # b => sites[a] # sites[b]

C5_Witness ==
    /\ pc = "model_done" /\ x = None
    /\ Len(sites) = MAX_STRING_LEN + 1 /\ sites[Len(sites)] = SiteX(MAX_STRING_LEN - 1)

\* C8: the latent dimension is twice the decoder hidden width h, and model
\* seeds the decoder hidden state with features [0, h) of each latent draw
\* and the cell state with features [h, 2h): two halves of width h that are
\* disjoint and cover the draw.
C8_LatentSplit ==
    /\ latent_dim = 2 * decoder_hidden_size
    /\ InModel =>
         LET h    == decoder_hidden_size
             seed == IF steps = <<>> THEN decoder_hidden_state[1] ELSE steps[1].state_in
         IN  /\ Shape2(z) = <<ExpectedCount, 2 * h>>
             /\ Len(seed.h) = 1 /\ Len(seed.c) = 1
             /\ \A b \in 1..Len(z) :
                  /\ Len(seed.h[1][b]) = h /\ Len(seed.c[1][b]) = h
                  /\ \A k \in 1..h : seed.h[1][b][k] = z[b][k]
                  /\ \A k \in 1..h : seed.c[1][b][k] = z[b][h + k]
                  /\ seed.h[1][b] \o seed.c[1][b] = z[b]
                  /\ \A k, l \in 1..h : seed.h[1][b][k] # seed.c[1][b][l]

C8_Witness ==
    /\ pc = "model_loop" /\ i = 1 /\ decoder_hidden_size = 2 /\ latent_dim = 4
    /\ batch_size = 2
    /\ steps[1].state_in.c[1][2] = << <<2, 3>>, <<2, 4>> >>

\* C9 as stated: guide called with n strings returns the latent sample it
\* drew at site z, of shape (n, latent_dim).
C9_GuideReturnsSample ==
    pc = "guide_done" =>
        /\ ret = Some(z)
        /\ Shape2(z) = <<Len(x[1]), latent_dim>>

\* C9 as amended: guide called with n strings draws at site z a latent sample
\* of shape (n, latent_dim) and returns nothing.
C9_GuideDrawsSample ==
    pc = "guide_done" =>
        /\ ret = None
        /\ sites = <<"z">>
        /\ Shape2(z) = <<Len(x[1]), latent_dim>>
        /\ Shape2(loc[1].val) = Shape2(z)
        /\ Shape2(scale[1].val) = Shape2(z)

C9_Witness ==
    /\ pc = "guide_done" /\ x = Some(<< <<"a", "b">>, <<"b">> >>)
    /\ Shape2(z) = <<2, latent_dim>> /\ latent_dim = 4

\* symbol t (1-based) of s + EOS as the codec lays it out
ObservedChar(s, t) ==
    IF t <= Len(s) THEN s[t] ELSE IF t = Len(s) + 1 THEN EOS_CHAR ELSE PAD_CHAR

-----------------------------------------------------------------------------
(* Properties of the checkpoint operations, checked under SpecCkpt *)

\* os.path.join(folder, filename)
FilePath(a) == <<a[1], a[2]>>

\* C6 as stated: load_checkpoint of a missing file fails with an error that
\* names the expected file path, and changes none of the four parameter sets.
C6_ErrorNamesFilePath ==
    pc = "load_raised" =>
        /\ err # None /\ err[1].names = FilePath(arg[1])
        /\ params = before[1]

\* C6 as amended: load_checkpoint of a missing file fails with the error
\* "No model in path <folder>", which names the folder and not the file, and
\* changes none of the four parameter sets.
C6_ErrorNamesFolder ==
    pc = "load_raised" =>
        /\ fsFiles[arg[1]] = None
        /\ err # None /\ err[1].text = "No model in path" /\ err[1].names = <<arg[1][1]>>
        /\ \A n \in ParamSets : params[n] = before[1][n]

C6_Witness ==
    /\ pc = "load_raised" /\ arg = Some(<<"nn_model", "best.pth.tar">>)
    /\ fsFiles[<<"nn_model", "checkpoint.pth.tar">>] # None
    /\ fsFiles[<<"nn_model", "checkpoint.pth.tar">>][1].scale_mlp # params["scale_mlp"]
    /\ err[1].names = <<"nn_model">>

\* C7: after save_checkpoint(folder, filename) has completed, creating the
\* folder when absent, load_checkpoint(folder, filename) does not raise and
\* sets all four parameter sets to their values at that save, whatever the
\* parameters were changed to in between.
C7_SaveLoadRoundTrip ==
    /\ \A p \in Paths : saved[p] # None => p[1] \in fsDirs
    /\ pc = "save_done" => saved[arg[1]] = Some(params)
    /\ pc = "load_raised" => saved[arg[1]] = None
    /\ pc = "load_done" =>
         /\ saved[arg[1]] # None
         /\ \A n \in ParamSets : params[n] = saved[arg[1]][1][n]

C7_Witness ==
    /\ pc = "load_done"
    /\ \A n \in ParamSets : before[1][n] # params[n]
    /\ params # [n \in ParamSets |-> "w0"]
    /\ params["loc_mlp"] # params["scale_mlp"]

====
